---------------------------- MODULE Spec2Model ----------------------------
(***************************************************************************)
(* A model of cubed's blockwise primitive (cubed/primitive/blockwise.py)   *)
(* and of the single-threaded Python executor                              *)
(* (cubed/runtime/executors/python.py).                                    *)
(*                                                                         *)
(* Arrays are records [name, itemsize, shape, chunks]; a chunk key is a    *)
(* sequence of 0-based block coordinates.  Callables (block functions and  *)
(* kernels) are closures: a record naming the code and holding what the    *)
(* code closes over.                                                       *)
(***************************************************************************)
EXTENDS Integers, Sequences, FiniteSets, TLC

\* last: the call made last and what it returned; ops: the operation being
\* run; storage: the chunks of every array; tasks: the tasks of the operation;
\* executor: what the runtime that runs the tasks keeps between them
VARIABLES last, ops, storage, tasks, executor

vars == <<last, ops, storage, tasks, executor>>

(***************************************************************************)
(* Bounds of the model.                                                    *)
(***************************************************************************)
MaxReserved == 1
MaxExtra == 1
MaxAllowed == 14

(***************************************************************************)
(* Arithmetic helpers.                                                     *)
(***************************************************************************)
Max(a, b) == IF a >= b THEN a ELSE b

Min(a, b) == IF a <= b THEN a ELSE b

RECURSIVE Prod(_)
Prod(s) == IF Len(s) = 0 THEN 1 ELSE Head(s) * Prod(Tail(s))

RECURSIVE SumSeq(_)
SumSeq(s) == IF Len(s) = 0 THEN 0 ELSE Head(s) + SumSeq(Tail(s))

RECURSIVE Concat(_)
Concat(ss) == IF Len(ss) = 0 THEN <<>> ELSE Head(ss) \o Concat(Tail(ss))

Range(s) == {s[i] : i \in DOMAIN s}

(***************************************************************************)
(* Chunk grids.                                                            *)
(***************************************************************************)
\* the chunk lengths along one axis of length n cut in chunks of c: the last
\* chunk may be short
ChunkLens(n, c) ==
    [i \in 1..((n + c - 1) \div c) |-> IF i * c <= n THEN c ELSE n - (i - 1) * c]

normalize_chunks(chunks, shape) ==
    [ax \in 1..Len(shape) |-> ChunkLens(shape[ax], chunks[ax])]

to_chunksize(chunks_normal) ==
    [ax \in 1..Len(chunks_normal) |-> chunks_normal[ax][1]]

chunk_memory(itemsize, chunksize) == itemsize * Prod(chunksize)

\* itertools.product(*[range(n) for n in counts]): every key, last axis fastest
RECURSIVE product(_)
product(counts) ==
    IF Len(counts) = 0 THEN << <<>> >>
    ELSE LET rest == product(Tail(counts))
             n == Head(counts)
             m == Len(rest)
         IN [j \in 1..(n * m) |-> <<(j - 1) \div m>> \o rest[((j - 1) % m) + 1]]

\* map(list, ...): the runtime is handed lists, not tuples
AsList(key) == [kind |-> "list", coords |-> key]

CubedArrayProxy(array, chunks) == [array |-> array, chunks |-> chunks]

(***************************************************************************)
(* general_blockwise.                                                      *)
(***************************************************************************)
NoOp == [function |-> "none"]

\* the loop over target_stores; st carries the loop's locals, of which
\* chunks_normal outlives the loop
RECURSIVE TargetLoop(_, _, _)
TargetLoop(targets, i, st) ==
    IF i > Len(targets) THEN st
    ELSE LET t == targets[i]
             chunks_normal == normalize_chunks(t.chunks, t.shape)
             chunksize == to_chunksize(chunks_normal)
             ta == [name |-> t.store, itemsize |-> t.itemsize,
                    shape |-> t.shape, chunks |-> chunksize]
         IN TargetLoop(targets, i + 1,
                [write_proxies |-> Append(st.write_proxies, CubedArrayProxy(ta, chunksize)),
                 output_chunk_memory |->
                     Max(st.output_chunk_memory, chunk_memory(t.itemsize, chunksize) * 2),
                 target_array |-> Append(st.target_array, ta),
                 chunks_normal |-> chunks_normal])

TargetLoopInit ==
    [write_proxies |-> <<>>, output_chunk_memory |-> 0,
     target_array |-> <<>>, chunks_normal |-> <<>>]

RECURSIVE InputsMem(_)
InputsMem(arrays) ==
    IF Len(arrays) = 0 THEN 0
    ELSE chunk_memory(Head(arrays).itemsize, Head(arrays).chunks) * 2
         + InputsMem(Tail(arrays))

ProjectedMemBadMax(a, output_chunk_memory) ==
    a.reserved_mem + a.extra_projected_mem + InputsMem(a.arrays)
    + SumSeq([i \in 1..Len(a.targets) |->
                chunk_memory(a.targets[i].itemsize,
                             to_chunksize(normalize_chunks(a.targets[i].chunks,
                                                           a.targets[i].shape))) * 2])

ProjectedMem(a, output_chunk_memory) ==
    a.reserved_mem + a.extra_projected_mem + InputsMem(a.arrays) + output_chunk_memory

\* a list of one target is unwrapped; target_array is then the array itself
TargetArray(tas) == [isList |-> Len(tas) # 1, arrays |-> tas]

general_blockwise(a) ==
    LET array_names == [i \in 1..Len(a.arrays) |-> a.arrays[i].name]
        num_input_blocks == IF Len(a.num_input_blocks) = 0
                            THEN [i \in 1..Len(a.arrays) |-> 1]
                            ELSE a.num_input_blocks
        read_proxies == [n \in Range(array_names) |->
                            LET arr == CHOOSE x \in Range(a.arrays) :
                                          /\ x.name = n
                                          /\ \E i \in 1..Len(a.arrays) :
                                                /\ a.arrays[i] = x
                                                /\ \A j \in (i+1)..Len(a.arrays) :
                                                      a.arrays[j].name # n
                            IN CubedArrayProxy(arr, arr.chunks)]
        lp == TargetLoop(a.targets, 1, TargetLoopInit)
        spec == [block_function |-> a.block_function,
                 function |-> a.func,
                 function_nargs |-> Len(a.arrays),
                 num_input_blocks |-> num_input_blocks,
                 reads_map |-> read_proxies,
                 writes_list |-> lp.write_proxies]
        projected_mem == ProjectedMem(a, lp.output_chunk_memory)
        counts == [ax \in 1..Len(lp.chunks_normal) |-> Len(lp.chunks_normal[ax])]
        output_blocks == [j \in 1..Len(product(counts)) |-> AsList(product(counts)[j])]
        num_tasks == Prod(counts)
    IN IF projected_mem > a.allowed_mem
       THEN [raised |-> "ValueError",
             error |-> <<projected_mem, a.allowed_mem, a.reserved_mem>>,
             op |-> NoOp]
       ELSE [raised |-> "none",
             error |-> <<>>,
             op |-> [function |-> "apply_blockwise",
                     mappable |-> output_blocks,
                     config |-> spec,
                     source_array_names |-> array_names,
                     target_array |-> TargetArray(lp.target_array),
                     projected_mem |-> projected_mem,
                     allowed_mem |-> a.allowed_mem,
                     reserved_mem |-> a.reserved_mem,
                     num_tasks |-> num_tasks,
                     fusable |-> a.fusable]]


(***************************************************************************)
(* Fusion: the decisions.                                                  *)
(***************************************************************************)
\* Python's None where an operation or a pipeline is expected
None == [isNone |-> TRUE]

IsNone(x) == "isNone" \in DOMAIN x

is_fuse_candidate(primitive_op) == primitive_op.function = "apply_blockwise"

can_fuse_primitive_ops_or(primitive_op1, primitive_op2) ==
    IF is_fuse_candidate(primitive_op1) \/ is_fuse_candidate(primitive_op2)
    THEN primitive_op1.num_tasks = primitive_op2.num_tasks
    ELSE FALSE

can_fuse_primitive_ops(primitive_op1, primitive_op2) ==
    IF is_fuse_candidate(primitive_op1) /\ is_fuse_candidate(primitive_op2)
    THEN primitive_op1.num_tasks = primitive_op2.num_tasks
    ELSE FALSE

\* MemoryModeller: the memory allocated now and its high-water mark
MemoryModeller == [current_mem |-> 0, peak_mem |-> 0]

allocate(mm, num_bytes) ==
    [current_mem |-> mm.current_mem + num_bytes,
     peak_mem |-> Max(mm.peak_mem, mm.current_mem + num_bytes)]

free(mm, num_bytes) ==
    [current_mem |-> mm.current_mem - num_bytes, peak_mem |-> mm.peak_mem]

\* the loop of peak_projected_mem; a target_array that is a list has no dtype
RECURSIVE PeakLoop(_, _)
PeakLoop(primitive_ops, mm) ==
    IF Len(primitive_ops) = 0 THEN [raised |-> "none", value |-> mm.peak_mem]
    ELSE LET p == Head(primitive_ops)
             allocated == allocate(mm, p.projected_mem)
         IN IF p.target_array.isList
            THEN [raised |-> "AttributeError", value |-> 0]
            ELSE LET ta == p.target_array.arrays[1]
                     chunkmem == chunk_memory(ta.itemsize, ta.chunks)
                 IN PeakLoop(Tail(primitive_ops),
                             free(allocated, p.projected_mem - chunkmem))

peak_projected_mem(primitive_ops) == PeakLoop(primitive_ops, MemoryModeller)

\* zip(num_input_blocks, predecessor_primitive_ops) and the loop in it
RECURSIVE TotalNumInputBlocks(_, _)
TotalNumInputBlocks(num_input_blocks, predecessor_primitive_ops) ==
    IF Len(num_input_blocks) = 0 \/ Len(predecessor_primitive_ops) = 0 THEN 0
    ELSE LET ni == Head(num_input_blocks)
             p == Head(predecessor_primitive_ops)
         IN SumSeq([j \in 1..Len(p.config.num_input_blocks) |->
                       ni * p.config.num_input_blocks[j]])
            + TotalNumInputBlocks(Tail(num_input_blocks), Tail(predecessor_primitive_ops))

\* max_total_num_input_blocks: None, or an integer
NoMax == [given |-> FALSE, value |-> 0]

MaxOf(n) == [given |-> TRUE, value |-> n]

MaxBlocksDecisionFalsy(primitive_op, predecessor_primitive_ops, max_total_num_input_blocks) ==
    IF ~max_total_num_input_blocks.given \/ max_total_num_input_blocks.value = 0
    THEN \A i \in 1..Len(predecessor_primitive_ops) :
            primitive_op.num_tasks = predecessor_primitive_ops[i].num_tasks
    ELSE TotalNumInputBlocks(primitive_op.config.num_input_blocks,
                             predecessor_primitive_ops)
            <= max_total_num_input_blocks.value

\* the last decision of can_fuse_multiple_primitive_ops
MaxBlocksDecision(primitive_op, predecessor_primitive_ops, max_total_num_input_blocks) ==
    IF ~max_total_num_input_blocks.given
    THEN \A i \in 1..Len(predecessor_primitive_ops) :
            primitive_op.num_tasks = predecessor_primitive_ops[i].num_tasks
    ELSE TotalNumInputBlocks(primitive_op.config.num_input_blocks,
                             predecessor_primitive_ops)
            <= max_total_num_input_blocks.value

Returns(v) == [raised |-> "none", value |-> v]

can_fuse_multiple_primitive_ops_unbudgeted(primitive_op, predecessor_primitive_ops, max_total_num_input_blocks) ==
    IF /\ is_fuse_candidate(primitive_op)
       /\ \A i \in 1..Len(predecessor_primitive_ops) :
             is_fuse_candidate(predecessor_primitive_ops[i])
    THEN LET peak_projected == peak_projected_mem(predecessor_primitive_ops)
             num_input_blocks == primitive_op.config.num_input_blocks
         IN IF peak_projected.raised # "none"
            THEN [raised |-> peak_projected.raised, value |-> FALSE]
            ELSE IF ~(\A i \in 1..Len(num_input_blocks) :
                         num_input_blocks[1] = num_input_blocks[i])
            THEN Returns(FALSE)
            ELSE Returns(MaxBlocksDecision(primitive_op, predecessor_primitive_ops,
                                           max_total_num_input_blocks))
    ELSE Returns(FALSE)

can_fuse_multiple_primitive_ops(primitive_op, predecessor_primitive_ops, max_total_num_input_blocks) ==
    IF /\ is_fuse_candidate(primitive_op)
       /\ \A i \in 1..Len(predecessor_primitive_ops) :
             is_fuse_candidate(predecessor_primitive_ops[i])
    THEN LET peak_projected == peak_projected_mem(predecessor_primitive_ops)
             num_input_blocks == primitive_op.config.num_input_blocks
         IN IF peak_projected.raised # "none"
            THEN [raised |-> peak_projected.raised, value |-> FALSE]
            ELSE IF peak_projected.value > primitive_op.allowed_mem
            THEN Returns(FALSE)
            ELSE IF ~(\A i \in 1..Len(num_input_blocks) :
                         num_input_blocks[1] = num_input_blocks[i])
            THEN Returns(FALSE)
            ELSE Returns(MaxBlocksDecision(primitive_op, predecessor_primitive_ops,
                                           max_total_num_input_blocks))
    ELSE Returns(FALSE)

(***************************************************************************)
(* Fusion: the rewrites.                                                   *)
(***************************************************************************)
FuseSourceNames(primitive_op1, primitive_op2) == primitive_op1.source_array_names

FuseWriteProxiesOfFirst(pipeline1, pipeline2) == pipeline1.writes_list

\* write_proxies of fuse
FuseWriteProxies(pipeline1, pipeline2) == pipeline2.writes_list

fuse(primitive_op1, primitive_op2) ==
    IF primitive_op1.num_tasks # primitive_op2.num_tasks
    THEN [raised |-> "AssertionError", op |-> NoOp]
    ELSE LET pipeline1 == primitive_op1.config
             pipeline2 == primitive_op2.config
             spec == [block_function |-> [code |-> "fuse.fused_blockwise_func",
                                          pipeline1 |-> pipeline1,
                                          pipeline2 |-> pipeline2],
                      function |-> [code |-> "fuse.fused_func", gen |-> FALSE,
                                    pipeline1 |-> pipeline1,
                                    pipeline2 |-> pipeline2],
                      function_nargs |-> pipeline1.function_nargs,
                      num_input_blocks |->
                          [i \in 1..Len(pipeline1.num_input_blocks) |->
                              pipeline1.num_input_blocks[i] * pipeline2.num_input_blocks[1]],
                      reads_map |-> pipeline1.reads_map,
                      writes_list |-> FuseWriteProxies(pipeline1, pipeline2)]
         IN IF Len(pipeline1.num_input_blocks) > 0 /\ Len(pipeline2.num_input_blocks) = 0
            THEN [raised |-> "IndexError", op |-> NoOp]
            ELSE [raised |-> "none",
                  op |-> [function |-> "apply_blockwise",
                          mappable |-> primitive_op2.mappable,
                          config |-> spec,
                          source_array_names |-> FuseSourceNames(primitive_op1, primitive_op2),
                          target_array |-> primitive_op2.target_array,
                          projected_mem |-> Max(primitive_op1.projected_mem,
                                                primitive_op2.projected_mem),
                          allowed_mem |-> primitive_op2.allowed_mem,
                          reserved_mem |-> primitive_op2.reserved_mem,
                          num_tasks |-> primitive_op2.num_tasks,
                          fusable |-> TRUE]]

\* dict.update
Update(d1, d2) ==
    [n \in (DOMAIN d1) \cup (DOMAIN d2) |-> IF n \in DOMAIN d2 THEN d2[n] ELSE d1[n]]

RECURSIVE UpdateAll(_, _)
UpdateAll(d, pipelines) ==
    IF Len(pipelines) = 0 THEN d
    ELSE IF IsNone(Head(pipelines)) THEN UpdateAll(d, Tail(pipelines))
    ELSE UpdateAll(Update(d, Head(pipelines).reads_map), Tail(pipelines))

SelectNotNone(ps) == SelectSeq(ps, LAMBDA p : ~IsNone(p))

\* the loop that builds source_array_names in fuse_multiple
MultipleSourceNames(primitive_op, predecessor_primitive_ops) ==
    Concat([i \in 1..Len(predecessor_primitive_ops) |->
               IF IsNone(predecessor_primitive_ops[i])
               THEN <<primitive_op.source_array_names[i]>>
               ELSE predecessor_primitive_ops[i].source_array_names])

fuse_multiple(primitive_op, predecessor_primitive_ops) ==
    LET pipeline == primitive_op.config
        predecessor_pipelines ==
            [i \in 1..Len(predecessor_primitive_ops) |->
                IF IsNone(predecessor_primitive_ops[i]) THEN None
                ELSE predecessor_primitive_ops[i].config]
        predecessor_funcs_nargs ==
            [i \in 1..Len(predecessor_pipelines) |->
                IF IsNone(predecessor_pipelines[i]) THEN 1
                ELSE predecessor_pipelines[i].function_nargs]
        chained == Concat([i \in 1..Len(predecessor_primitive_ops) |->
                              IF IsNone(predecessor_primitive_ops[i]) THEN <<1>>
                              ELSE predecessor_primitive_ops[i].config.num_input_blocks])
        fused_num_input_blocks ==
            [j \in 1..Len(chained) |-> pipeline.num_input_blocks[1] * chained[j]]
        peak == peak_projected_mem(SelectNotNone(predecessor_primitive_ops))
        spec == [block_function |-> [code |-> "fuse_multiple.fused_blockwise_func",
                                     pipeline |-> pipeline,
                                     predecessor_pipelines |-> predecessor_pipelines,
                                     predecessor_funcs_nargs |-> predecessor_funcs_nargs],
                 function |-> [code |-> IF pipeline.function.gen
                                        THEN "fuse_multiple.fused_func_generator"
                                        ELSE "fuse_multiple.fused_func_single",
                               gen |-> pipeline.function.gen,
                               pipeline |-> pipeline,
                               predecessor_pipelines |-> predecessor_pipelines],
                 function_nargs |-> pipeline.function_nargs,
                 num_input_blocks |-> fused_num_input_blocks,
                 reads_map |-> UpdateAll(pipeline.reads_map, predecessor_pipelines),
                 writes_list |-> pipeline.writes_list]
    IN IF Len(chained) > 0 /\ Len(pipeline.num_input_blocks) = 0
       THEN [raised |-> "IndexError", op |-> NoOp]
       ELSE IF \E i \in 1..Len(predecessor_primitive_ops) :
                  /\ IsNone(predecessor_primitive_ops[i])
                  /\ i > Len(primitive_op.source_array_names)
       THEN [raised |-> "IndexError", op |-> NoOp]
       ELSE IF peak.raised # "none"
       THEN [raised |-> peak.raised, op |-> NoOp]
       ELSE [raised |-> "none",
             op |-> [function |-> "apply_blockwise",
                     mappable |-> primitive_op.mappable,
                     config |-> spec,
                     source_array_names |->
                         MultipleSourceNames(primitive_op, predecessor_primitive_ops),
                     target_array |-> primitive_op.target_array,
                     projected_mem |-> Max(primitive_op.projected_mem, peak.value),
                     allowed_mem |-> primitive_op.allowed_mem,
                     reserved_mem |-> primitive_op.reserved_mem,
                     num_tasks |-> primitive_op.num_tasks,
                     fusable |-> TRUE]]

(***************************************************************************)
(* Inputs of general_blockwise.                                            *)
(***************************************************************************)
Arr(name, itemsize, shape, chunks) ==
    [name |-> name, itemsize |-> itemsize, shape |-> shape, chunks |-> chunks]

SourceArrays == {Arr("a", 1, <<4>>, <<2>>), Arr("b", 2, <<4>>, <<1>>)}

Grids == {[shape |-> <<4>>, chunks |-> <<2>>],
          [shape |-> <<3>>, chunks |-> <<1>>],
          [shape |-> <<3, 4>>, chunks |-> <<2, 2>>]}

Target(store, itemsize, grid) ==
    [store |-> store, itemsize |-> itemsize, shape |-> grid.shape, chunks |-> grid.chunks]

SeqsUpTo(S, n) == UNION {[1..k -> S] : k \in 0..n}

\* a caller's block function: per argument, the input it addresses and how:
\* "same" the block at the output's coordinates, as one (name, coord...) tuple;
\* "list" every block of the input as a list of such tuples; "iter" the same as
\* an iterator
BaseBlockFunction(arrays, modes) ==
    [code |-> "key_function",
     args |-> [i \in 1..Len(arrays) |->
                 [name |-> arrays[i].name, mode |-> modes[i],
                  numblocks |-> LET cn == normalize_chunks(arrays[i].chunks, arrays[i].shape)
                                IN [ax \in 1..Len(cn) |-> Len(cn[ax])]]]]

BaseKernel(name, gen) == [code |-> name, gen |-> gen]

BlockwiseArgs ==
    {[func |-> BaseKernel("f", Len(ts) > 1),
      block_function |-> BaseBlockFunction(as, [i \in 1..Len(as) |-> "same"]),
      arrays |-> as,
      allowed_mem |-> al,
      reserved_mem |-> r,
      targets |-> ts,
      extra_projected_mem |-> e,
      fusable |-> TRUE,
      num_input_blocks |-> <<>>] :
        as \in SeqsUpTo(SourceArrays, 2),
        ts \in {<<Target("t1", sz[1], g[1])>> : sz \in [1..1 -> 1..2], g \in [1..1 -> Grids]}
               \cup {<<Target("t1", sz[1], g[1]), Target("t2", sz[2], g[2])>> :
                        sz \in [1..2 -> 1..2], g \in [1..2 -> Grids]},
        al \in {0, 4, 8} \cup (MaxAllowed - 4)..MaxAllowed,
        r \in 0..MaxReserved,
        e \in 0..MaxExtra}

(***************************************************************************)
(* Construction alone: general_blockwise applied to every input.           *)
(***************************************************************************)
NoCall == [call |-> "none"]

\* no runtime is executing anything
NoExecutor == [state |-> "none"]

\* the arguments are drawn first, the call then made once
InitBlockwise ==
    /\ \E a \in BlockwiseArgs : last = [call |-> "pending", args |-> a]
    /\ ops = <<>>
    /\ storage = <<>>
    /\ tasks = <<>>
    /\ executor = NoExecutor

GeneralBlockwise ==
    /\ last.call = "pending"
    /\ last' = [call |-> "general_blockwise", args |-> last.args,
                ret |-> general_blockwise(last.args)]
    /\ UNCHANGED <<ops, storage, tasks, executor>>

NextBlockwise == GeneralBlockwise

SpecBlockwise == InitBlockwise /\ [][NextBlockwise]_vars

(***************************************************************************)
(* The operations the fusion engine is applied to: a plan of producers     *)
(* (Q..) and consumers (P..) over the arrays a, b, c, each built by        *)
(* general_blockwise, and two operations of another primitive.            *)
(***************************************************************************)
MaxTotalBlocks == 4

G1 == [shape |-> <<2>>, chunks |-> <<2>>]
G2 == [shape |-> <<4>>, chunks |-> <<2>>]
G3 == [shape |-> <<3>>, chunks |-> <<1>>]

ArrA == Arr("a", 1, <<4>>, <<2>>)
ArrB == Arr("b", 2, <<4>>, <<2>>)
ArrC == Arr("c", 1, <<3>>, <<1>>)

\* a target as the input of a later operation
AsInput(t) == Arr(t.store, t.itemsize, t.shape, t.chunks)

T1 == Target("t1", 1, G2)
T2 == Target("t2", 2, G2)
T3 == Target("t3", 1, G1)
T4 == Target("t4", 1, G2)
T5 == Target("t5", 1, G2)
T6 == Target("t6", 1, G3)
U2 == Target("u", 1, G2)
U1 == Target("u", 1, G1)

Args(kernel, modes, arrays, targets, allowed_mem, num_input_blocks) ==
    [func |-> kernel,
     block_function |-> BaseBlockFunction(arrays, modes),
     arrays |-> arrays,
     allowed_mem |-> allowed_mem,
     reserved_mem |-> 0,
     targets |-> targets,
     extra_projected_mem |-> 0,
     fusable |-> TRUE,
     num_input_blocks |-> num_input_blocks]

Inc == BaseKernel("inc", FALSE)
Dbl == BaseKernel("dbl", FALSE)
Add == BaseKernel("add", FALSE)
SumAll == BaseKernel("sum", FALSE)
Split == BaseKernel("split", TRUE)
\* kernels that raise: at once, and after the first of two results
Boom == BaseKernel("boom", FALSE)
YieldThenRaise == BaseKernel("yield_then_raise", TRUE)

Build(a) == general_blockwise(a).op

Q1 == Build(Args(Inc, <<"same">>, <<ArrA>>, <<T1>>, 20, <<>>))
Q2 == Build(Args(Inc, <<"same">>, <<ArrB>>, <<T2>>, 20, <<>>))
Q3 == Build(Args(SumAll, <<"iter">>, <<ArrA>>, <<T3>>, 20, <<2>>))
Q4 == Build(Args(Split, <<"same">>, <<ArrA>>, <<T4, T5>>, 20, <<>>))
Q5 == Build(Args(Inc, <<"same">>, <<ArrC>>, <<T6>>, 20, <<>>))
Q6 == Build(Args(Add, <<"same", "same">>, <<ArrA, ArrB>>, <<T1>>, 20, <<>>))
Q7 == Build(Args(Boom, <<"same">>, <<ArrA>>, <<T1>>, 20, <<>>))
Q8 == Build(Args(YieldThenRaise, <<"same">>, <<ArrA>>, <<T4, T5>>, 20, <<>>))

P1 == Build(Args(Dbl, <<"same">>, <<AsInput(T1)>>, <<U2>>, 12, <<>>))
P2 == Build(Args(Add, <<"same", "same">>, <<AsInput(T1), AsInput(T2)>>, <<U2>>, 30, <<>>))
P3 == Build(Args(Add, <<"same", "iter">>, <<AsInput(T1), AsInput(T2)>>, <<U1>>, 30, <<1, 2>>))
P4 == Build(Args(Add, <<"iter", "iter">>, <<AsInput(T1), AsInput(T2)>>, <<U1>>, 30, <<2, 2>>))
P5 == Build(Args(Add, <<"same", "same">>, <<AsInput(T1), ArrB>>, <<U2>>, 30, <<>>))
P6 == Build(Args(Add, <<"same", "same">>, <<AsInput(T1), AsInput(T2)>>, <<U2>>, 16, <<>>))
P7 == Build(Args(Dbl, <<"same">>, <<AsInput(T2)>>, <<U2>>, 12, <<>>))
P8 == Build(Args(Dbl, <<"same">>, <<AsInput(T4)>>, <<U2>>, 20, <<>>))
P9 == Build(Args(Dbl, <<"same">>, <<AsInput(T6)>>, <<U2>>, 20, <<>>))
P10 == Build(Args(Dbl, <<"same">>, <<AsInput(T3)>>, <<U1>>, 20, <<>>))
P11 == Build(Args(SumAll, <<"list">>, <<AsInput(T1)>>, <<U1>>, 20, <<2>>))
P12 == Build(Args(SumAll, <<"iter">>, <<AsInput(T1)>>, <<U1>>, 20, <<2>>))
P13 == Build(Args(Split, <<"same">>, <<AsInput(T1)>>, <<T4, T5>>, 20, <<>>))
P14 == Build(Args(Add, <<"same", "iter">>, <<AsInput(T4), AsInput(T2)>>, <<U1>>, 30, <<1, 2>>))

\* an operation of another primitive: its stage function is not apply_blockwise
Substituted(op) == [op EXCEPT !.function = "copy_read_to_write"]

R1 == Substituted(Q1)
R2 == Substituted(P1)

Producers == {Q1, Q2, Q3, Q4, Q5, Q6, R1}

Consumers == {P1, P2, P3, P4, P5, P6, P7, P8, P9, P10, P11, P12, P13, P14, R2}

BaseOps == Producers \cup Consumers

\* the names of the arrays an operation writes
TargetNames(op) == {op.target_array.arrays[i].name : i \in 1..Len(op.target_array.arrays)}

\* for each input slot of the consumer, a producer of that slot's array, or None
PredecessorLists(op) ==
    {ps \in [1..Len(op.source_array_names) -> Producers \cup {None}] :
        \A i \in 1..Len(ps) :
            IsNone(ps[i]) \/ op.source_array_names[i] \in TargetNames(ps[i])}

\* up to two producers of inputs of the consumer, in any order
ProducerLists(op) ==
    {qs \in SeqsUpTo(Producers, 2) :
        \A i \in 1..Len(qs) : TargetNames(qs[i]) \cap Range(op.source_array_names) # {}}

MaxChoices == {NoMax} \cup {MaxOf(n) : n \in 0..MaxTotalBlocks}

PendingCalls ==
    {[call |-> "pending", fn |-> "can_fuse_primitive_ops", args |-> [primitive_op1 |-> op1, primitive_op2 |-> op2]] :
        op1 \in BaseOps, op2 \in BaseOps}
    \cup
    UNION {{[call |-> "pending", fn |-> "can_fuse_multiple_primitive_ops",
             args |-> [primitive_op |-> op, predecessor_primitive_ops |-> ps,
                       max_total_num_input_blocks |-> mx]] :
               ps \in ProducerLists(op), mx \in MaxChoices} : op \in BaseOps}
    \cup
    {[call |-> "pending", fn |-> "fuse",
      args |-> [primitive_op1 |-> pq[1], primitive_op2 |-> pq[2]]] :
        pq \in {x \in Producers \X Consumers :
                   /\ can_fuse_primitive_ops(x[1], x[2])
                   /\ TargetNames(x[1]) \cap Range(x[2].source_array_names) # {}}}
    \cup
    {[call |-> "pending", fn |-> "fuse_multiple",
      args |-> [primitive_op |-> pp[1], predecessor_primitive_ops |-> pp[2]]] :
        pp \in {x \in UNION {{<<op, ps>> : ps \in PredecessorLists(op)} : op \in Consumers} :
                   \E mx \in MaxChoices :
                       LET r == can_fuse_multiple_primitive_ops(x[1], SelectNotNone(x[2]), mx)
                       IN r.raised = "none" /\ r.value}}
    \cup
    {[call |-> "pending", fn |-> "peak_projected_mem", args |-> [primitive_ops |-> qs]] :
        qs \in SeqsUpTo(Producers, 3)}

(***************************************************************************)
(* The fusion engine applied: the call is drawn first, then made once.     *)
(***************************************************************************)
InitFusion ==
    /\ last \in PendingCalls
    /\ ops = <<>>
    /\ storage = <<>>
    /\ tasks = <<>>
    /\ executor = NoExecutor

Pending(fn) == last.call = "pending" /\ last.fn = fn

CanFusePair ==
    /\ Pending("can_fuse_primitive_ops")
    /\ last' = [call |-> "can_fuse_primitive_ops", args |-> last.args,
                ret |-> Returns(can_fuse_primitive_ops(last.args.primitive_op1,
                                               last.args.primitive_op2))]
    /\ UNCHANGED <<ops, storage, tasks, executor>>

CanFuseMultiple ==
    /\ Pending("can_fuse_multiple_primitive_ops")
    /\ last' = [call |-> "can_fuse_multiple_primitive_ops", args |-> last.args,
                ret |-> can_fuse_multiple_primitive_ops(
                           last.args.primitive_op,
                           last.args.predecessor_primitive_ops,
                           last.args.max_total_num_input_blocks)]
    /\ UNCHANGED <<ops, storage, tasks, executor>>

Fuse ==
    /\ Pending("fuse")
    /\ last' = [call |-> "fuse", args |-> last.args,
                ret |-> fuse(last.args.primitive_op1, last.args.primitive_op2)]
    /\ UNCHANGED <<ops, storage, tasks, executor>>

FuseMultiple ==
    /\ Pending("fuse_multiple")
    /\ last' = [call |-> "fuse_multiple", args |-> last.args,
                ret |-> fuse_multiple(last.args.primitive_op,
                                     last.args.predecessor_primitive_ops)]
    /\ UNCHANGED <<ops, storage, tasks, executor>>

PeakProjectedMem ==
    /\ Pending("peak_projected_mem")
    /\ last' = [call |-> "peak_projected_mem", args |-> last.args,
                ret |-> peak_projected_mem(last.args.primitive_ops)]
    /\ UNCHANGED <<ops, storage, tasks, executor>>

NextFusion == CanFusePair \/ CanFuseMultiple \/ Fuse \/ FuseMultiple \/ PeakProjectedMem

SpecFusion == InitFusion /\ [][NextFusion]_vars

(***************************************************************************)
(* C1, C5: what general_blockwise returns.                                 *)
(***************************************************************************)
Called == last.call = "general_blockwise"

\* the block counts of a target, axis by axis, from its shape and chunk size
NumBlocksOf(t) == [ax \in 1..Len(t.shape) |-> (t.shape[ax] + t.chunks[ax] - 1) \div t.chunks[ax]]

\* the bytes of one chunk of a target: a full chunk is min(chunk, shape) long
ChunkBytesOf(t) ==
    t.itemsize * Prod([ax \in 1..Len(t.shape) |->
                          IF t.chunks[ax] <= t.shape[ax] THEN t.chunks[ax] ELSE t.shape[ax]])

SetMax(S) == CHOOSE m \in S : \A x \in S : m >= x

C1_Projected(a) ==
    a.reserved_mem + a.extra_projected_mem
    + SumSeq([i \in 1..Len(a.arrays) |-> 2 * a.arrays[i].itemsize * Prod(a.arrays[i].chunks)])
    + SetMax({2 * ChunkBytesOf(a.targets[i]) : i \in 1..Len(a.targets)})

\* C1: general_blockwise fails, with (projected, allowed, reserved), exactly when
\* reserved + extra + the sum over the inputs of twice a chunk's bytes + the
\* largest over the outputs of twice a chunk's bytes exceeds allowed_mem, and
\* otherwise returns an operation carrying that projected_mem.
C1_MemoryBudget ==
    Called =>
        LET a == last.args
            p == C1_Projected(a)
        IN /\ (last.ret.raised = "ValueError") <=> (p > a.allowed_mem)
           /\ last.ret.raised = "ValueError" =>
                 last.ret.error = <<p, a.allowed_mem, a.reserved_mem>>
           /\ last.ret.raised # "ValueError" =>
                 /\ last.ret.raised = "none"
                 /\ last.ret.op.projected_mem = p
                 /\ last.ret.op.projected_mem <= last.ret.op.allowed_mem

\* two inputs, two outputs of different chunk bytes, one byte over the budget
C1_Witness ==
    /\ Called
    /\ last.ret.raised = "ValueError"
    /\ Len(last.args.arrays) = 2
    /\ Len(last.args.targets) = 2
    /\ ChunkBytesOf(last.args.targets[1]) # ChunkBytesOf(last.args.targets[2])
    /\ last.ret.error[1] = last.args.allowed_mem + 1

\* C5: num_tasks is the product of the block counts of output 0, and the
\* mappable holds every key of the Cartesian product of range(numblocks) of
\* output 0 exactly once, each a list; so it holds num_tasks keys.
C5_TasksOfOutput0 ==
    (Called /\ last.ret.raised = "none") =>
        LET op == last.ret.op
            nb == NumBlocksOf(last.args.targets[1])
            keys == {k \in [1..Len(nb) -> 0..SetMax(Range(nb) \cup {1})] :
                        \A ax \in 1..Len(nb) : k[ax] < nb[ax]}
        IN /\ op.num_tasks = Prod(nb)
           /\ Len(op.mappable) = op.num_tasks
           /\ \A j \in 1..Len(op.mappable) : op.mappable[j].kind = "list"
           /\ {op.mappable[j].coords : j \in 1..Len(op.mappable)} = keys
           /\ \A i, j \in 1..Len(op.mappable) :
                 op.mappable[i] = op.mappable[j] => i = j

(***************************************************************************)
(* C6, C7, C8: the fusion decisions.                                       *)
(***************************************************************************)
IsCandidate(op) == op.function = "apply_blockwise"

\* C6: can_fuse_primitive_ops returns true exactly when both operations run
\* apply_blockwise and have the same num_tasks; it returns false, and raises
\* nothing, when either is not a candidate.
C6_CanFusePair ==
    last.call = "can_fuse_primitive_ops" =>
        LET p == last.args.primitive_op1
            q == last.args.primitive_op2
        IN /\ last.ret.raised = "none"
           /\ last.ret.value =
                 (IsCandidate(p) /\ IsCandidate(q) /\ p.num_tasks = q.num_tasks)
           /\ (~IsCandidate(p) \/ ~IsCandidate(q)) => last.ret.value = FALSE

\* one operand is no candidate though the task counts agree: false
C6_Witness ==
    /\ last.call = "can_fuse_primitive_ops"
    /\ IsCandidate(last.args.primitive_op1)
    /\ ~IsCandidate(last.args.primitive_op2)
    /\ last.args.primitive_op1.num_tasks = last.args.primitive_op2.num_tasks
    /\ last.ret.value = FALSE

\* the bytes of one chunk of the (single) target of an operation
TargetChunkBytes(op) ==
    op.target_array.arrays[1].itemsize * Prod(op.target_array.arrays[1].chunks)

SingleTargets(qs) == \A i \in 1..Len(qs) : ~qs[i].target_array.isList

\* the high-water mark of allocating Q_i.projected_mem while the chunks
\* returned by Q_1..Q_(i-1) are retained
HighWaterMark(qs) ==
    IF Len(qs) = 0 THEN 0
    ELSE SetMax({qs[i].projected_mem
                 + SumSeq([j \in 1..(i - 1) |-> TargetChunkBytes(qs[j])]) :
                 i \in 1..Len(qs)})

Uniform(nib) == \A i, j \in 1..Len(nib) : nib[i] = nib[j]

\* C7: can_fuse_multiple_primitive_ops returns false, and does not raise,
\* whenever an operation is no candidate, or the peak projected memory of the
\* predecessors exceeds the consumer's allowed_mem, or the consumer's
\* num_input_blocks is not uniform, whatever the limit and the task counts.
C7_NeverFuses ==
    last.call = "can_fuse_multiple_primitive_ops" =>
        LET p == last.args.primitive_op
            qs == last.args.predecessor_primitive_ops
        IN (\/ ~IsCandidate(p)
            \/ \E i \in 1..Len(qs) : ~IsCandidate(qs[i])
            \/ (SingleTargets(qs) /\ HighWaterMark(qs) > p.allowed_mem)
            \/ ~Uniform(p.config.num_input_blocks))
           => last.ret = Returns(FALSE)

\* every check of C8 passes: all candidates, the peak within the budget, a
\* uniform fan-in
ChecksPass(p, qs) ==
    /\ IsCandidate(p)
    /\ \A i \in 1..Len(qs) : IsCandidate(qs[i])
    /\ SingleTargets(qs)
    /\ HighWaterMark(qs) <= p.allowed_mem
    /\ Uniform(p.config.num_input_blocks)

\* sum over the consumer's slots i of ni times the sum of Q_i's fan-ins
TotalOverSlots(p, qs) ==
    SumSeq([i \in 1..Min(Len(p.config.num_input_blocks), Len(qs)) |->
               p.config.num_input_blocks[i] * SumSeq(qs[i].config.num_input_blocks)])

\* C8: with every check passed, a given limit decides alone (true iff the
\* total number of input blocks is within it), and without a limit the task
\* counts decide (true iff every predecessor has the consumer's num_tasks).
C8_LastDecision ==
    (/\ last.call = "can_fuse_multiple_primitive_ops"
     /\ ChecksPass(last.args.primitive_op, last.args.predecessor_primitive_ops)) =>
        LET p == last.args.primitive_op
            qs == last.args.predecessor_primitive_ops
            mx == last.args.max_total_num_input_blocks
        IN /\ last.ret.raised = "none"
           /\ mx.given => (last.ret.value <=> TotalOverSlots(p, qs) <= mx.value)
           /\ ~mx.given =>
                 (last.ret.value <=> \A i \in 1..Len(qs) : p.num_tasks = qs[i].num_tasks)

\* a limit lets a consumer fuse with a predecessor of another task count
C8_Witness ==
    /\ last.call = "can_fuse_multiple_primitive_ops"
    /\ ChecksPass(last.args.primitive_op, last.args.predecessor_primitive_ops)
    /\ last.args.max_total_num_input_blocks.given
    /\ Len(last.args.predecessor_primitive_ops) = 2
    /\ Len(last.args.primitive_op.config.num_input_blocks) = 2
    /\ last.args.predecessor_primitive_ops[1] # last.args.predecessor_primitive_ops[2]
    /\ \E i \in 1..2 : last.args.predecessor_primitive_ops[i].num_tasks
                          # last.args.primitive_op.num_tasks
    /\ last.ret.value = TRUE

(***************************************************************************)
(* C4: what the rewrites keep of the consumer.                             *)
(***************************************************************************)
\* slot by slot: the predecessor's source names, or the consumer's own input
\* name where the slot has no predecessor
RECURSIVE SlotOrderNames(_, _, _)
SlotOrderNames(consumer, preds, i) ==
    IF i > Len(consumer.source_array_names) THEN <<>>
    ELSE (IF i > Len(preds) \/ IsNone(preds[i])
          THEN <<consumer.source_array_names[i]>>
          ELSE preds[i].source_array_names)
         \o SlotOrderNames(consumer, preds, i + 1)

\* the predecessors of the consumer's slots in fuse(producer, consumer)
PairPreds(producer, consumer) ==
    [i \in 1..Len(consumer.source_array_names) |->
        IF consumer.source_array_names[i] \in TargetNames(producer)
        THEN producer ELSE None]

KeepsConsumer(fused, consumer) ==
    /\ fused.num_tasks = consumer.num_tasks
    /\ fused.target_array = consumer.target_array

\* C4: fuse and fuse_multiple both return the consumer's num_tasks and
\* target_array, and as source_array_names the concatenation, in the
\* consumer's slot order, of each predecessor's source names, with the
\* consumer's own input name for a slot without predecessor.
C4_KeepsAndConcatenates ==
    /\ (last.call = "fuse" /\ last.ret.raised = "none") =>
          /\ KeepsConsumer(last.ret.op, last.args.primitive_op2)
          /\ last.ret.op.source_array_names =
                SlotOrderNames(last.args.primitive_op2,
                           PairPreds(last.args.primitive_op1, last.args.primitive_op2), 1)
    /\ (last.call = "fuse_multiple" /\ last.ret.raised = "none") =>
          /\ KeepsConsumer(last.ret.op, last.args.primitive_op)
          /\ last.ret.op.source_array_names =
                SlotOrderNames(last.args.primitive_op, last.args.predecessor_primitive_ops, 1)

(***************************************************************************)
(* Running a task: the keys a block function returns, the chunks read for  *)
(* them, the kernel applied to the chunks.                                 *)
(***************************************************************************)
\* a (name, coord...) tuple, a list of arguments, an iterator over arguments
Key(name, coords) == [kind |-> "key", name |-> name, coords |-> coords]

ListOf(items) == [kind |-> "list", items |-> items]

IterOf(items) == [kind |-> "iter", items |-> items]

\* what a call gives: a value, or the exception it raised
Raised(type) == [raised |-> type, value |-> <<>>]

Value(v) == [raised |-> "none", value |-> v]

\* the first exception raised in a sequence of calls, or the values of all
AllOf(rs) ==
    IF \E i \in 1..Len(rs) : rs[i].raised # "none"
    THEN Raised(rs[CHOOSE i \in 1..Len(rs) :
                      /\ rs[i].raised # "none"
                      /\ \A j \in 1..(i - 1) : rs[j].raised = "none"].raised)
    ELSE Value([i \in 1..Len(rs) |-> rs[i].value])

\* the shortest length of the sequences given, as zip stops there
ZipLen(seqs) ==
    IF Len(seqs) = 0 THEN 0
    ELSE CHOOSE n \in {Len(seqs[i]) : i \in 1..Len(seqs)} :
            \A i \in 1..Len(seqs) : n <= Len(seqs[i])

\* more_itertools.split_into: consecutive lists of the sizes given
RECURSIVE split_into(_, _)
split_into(items, sizes) ==
    IF Len(sizes) = 0 THEN <<>>
    ELSE LET n == Min(Head(sizes), Len(items))
         IN <<ListOf(SubSeq(items, 1, n))>>
            \o split_into(SubSeq(items, n + 1, Len(items)), Tail(sizes))

\* config.block_function(*args): the caller's key function, or one of the
\* closures fused_blockwise_func of fuse and of fuse_multiple
RECURSIVE CallBlockFunction(_, _)
RECURSIVE apply_pipeline_block_func(_, _, _)
apply_pipeline_block_func(pipeline, n_input_blocks, arg) ==
    IF IsNone(pipeline) THEN Value(<<arg>>)
    ELSE IF n_input_blocks = 1
    THEN IF arg.kind # "key" THEN Raised("AssertionError")
         ELSE CallBlockFunction(pipeline.block_function, <<arg>>)
    ELSE IF arg.kind \notin {"list", "iter"} THEN Raised("AssertionError")
    ELSE LET each == AllOf([k \in 1..Len(arg.items) |->
                              CallBlockFunction(pipeline.block_function, <<arg.items[k]>>)])
         IN IF each.raised # "none" THEN each
            ELSE Value([j \in 1..ZipLen(each.value) |->
                          [kind |-> arg.kind,
                           items |-> [k \in 1..Len(each.value) |-> each.value[k][j]]]])

CallBlockFunction(bf, args) ==
    IF Len(args) # 1 THEN Raised("TypeError")
    ELSE LET out_key == args[1]
         IN CASE bf.code = "key_function" ->
                   IF out_key.kind # "key" THEN Raised("TypeError")
                   ELSE Value([i \in 1..Len(bf.args) |->
                          LET a == bf.args[i]
                              blocks == product(a.numblocks)
                              all == [k \in 1..Len(blocks) |-> Key(a.name, blocks[k])]
                          IN CASE a.mode = "same" -> Key(a.name, out_key.coords)
                               [] a.mode = "list" -> ListOf(all)
                               [] a.mode = "iter" -> IterOf(all)])
              [] bf.code = "fuse.fused_blockwise_func" ->
                   LET inner == CallBlockFunction(bf.pipeline2.block_function, <<out_key>>)
                   IN IF inner.raised # "none" THEN inner
                      ELSE CallBlockFunction(bf.pipeline1.block_function, inner.value)
              [] bf.code = "fuse_multiple.fused_blockwise_func" ->
                   LET inner == CallBlockFunction(bf.pipeline.block_function, <<out_key>>)
                   IN IF inner.raised # "none" THEN inner
                      ELSE LET n == Min(Len(bf.predecessor_pipelines), Len(inner.value))
                           IN IF n > Len(bf.pipeline.num_input_blocks)
                              THEN Raised("IndexError")
                              ELSE LET func_args ==
                                          AllOf([i \in 1..n |->
                                             apply_pipeline_block_func(
                                                bf.predecessor_pipelines[i],
                                                bf.pipeline.num_input_blocks[i],
                                                inner.value[i])])
                                   IN IF func_args.raised # "none" THEN func_args
                                      ELSE Value(split_into(Concat(func_args.value),
                                                            bf.predecessor_funcs_nargs))

\* a chunk read or computed, the generator a generator function returns, the
\* exception a call raised, one item of a lazy map(function, zip(*args))
Chunk(v) == [kind |-> "chunk", v |-> v]

Gen(items) == [kind |-> "gen", items |-> items]

Error(type) == [kind |-> "error", type |-> type]

Thunk(function, args) == [kind |-> "thunk", function |-> function, args |-> args]

\* the chunks a task has read so far, by (name, coords)
Lookup(got, key) ==
    IF <<key.name, key.coords>> \in DOMAIN got THEN got[<<key.name, key.coords>>] ELSE 0

RECURSIVE EagerLeavesOfIterators(_)
EagerLeavesOfIterators(node) ==
    CASE node.kind = "key" -> <<node>>
      [] node.kind \in {"list", "iter"} ->
            Concat([i \in 1..Len(node.items) |-> EagerLeavesOfIterators(node.items[i])])
      [] OTHER -> <<>>

\* the keys that map_nested(get_chunk, ...) reads at once: a tuple is read,
\* a list is read item by item, an iterator is left for its consumer
RECURSIVE EagerLeaves(_)
EagerLeaves(node) ==
    CASE node.kind = "key" -> <<node>>
      [] node.kind = "list" -> Concat([i \in 1..Len(node.items) |-> EagerLeaves(node.items[i])])
      [] OTHER -> <<>>

\* cubed.utils.map_nested(get_chunk, ...): the argument with its tuples read
RECURSIVE map_nested(_, _)
map_nested(got, node) ==
    CASE node.kind = "key" -> Chunk(Lookup(got, node))
      [] node.kind = "list" ->
            ListOf([i \in 1..Len(node.items) |-> map_nested(got, node.items[i])])
      [] OTHER -> node

\* config.function(*args): a caller's kernel (inc, dbl on one chunk; add, sum
\* over every chunk of every argument; split, a generator of two chunks;
\* boom and yield_then_raise, which raise ValueError) or
\* one of the closures fused_func of fuse and of fuse_multiple.  The result
\* comes with the keys read while the kernel ran, in the order read.
RECURSIVE CallFunction(_, _, _)
RECURSIVE Consume(_, _)
RECURSIVE FuncArgs(_, _, _, _)
Consume(nodes, got) ==
    IF Len(nodes) = 0 THEN [total |-> 0, reads |-> <<>>, error |-> "none"]
    ELSE LET h == Head(nodes)
             first ==
                CASE h.kind = "chunk" -> [total |-> h.v, reads |-> <<>>, error |-> "none"]
                  [] h.kind = "key" ->
                        [total |-> Lookup(got, h), reads |-> <<h>>, error |-> "none"]
                  [] h.kind \in {"list", "iter", "gen"} -> Consume(h.items, got)
                  [] h.kind = "thunk" ->
                        LET reads == Concat([j \in 1..Len(h.args) |-> EagerLeaves(h.args[j])])
                            r == CallFunction(h.function,
                                     [j \in 1..Len(h.args) |-> map_nested(got, h.args[j])],
                                     got)
                            c == Consume(<<r.val>>, got)
                        IN [total |-> c.total,
                            reads |-> reads \o r.reads \o c.reads,
                            error |-> c.error]
                  [] h.kind = "error" -> [total |-> 0, reads |-> <<>>, error |-> h.type]
         IN IF first.error # "none" THEN first
            ELSE LET rest == Consume(Tail(nodes), got)
                 IN [total |-> first.total + rest.total,
                     reads |-> first.reads \o rest.reads,
                     error |-> rest.error]

\* apply_pipeline_func of fuse_multiple
apply_pipeline_func(pipeline, n_input_blocks, args, got) ==
    IF IsNone(pipeline)
    THEN IF Len(args) = 0 THEN [val |-> Error("IndexError"), reads |-> <<>>]
         ELSE [val |-> args[1], reads |-> <<>>]
    ELSE IF n_input_blocks = 1 THEN CallFunction(pipeline.function, args, got)
    ELSE IF \E j \in 1..Len(args) : args[j].kind \notin {"list", "iter", "gen"}
    THEN [val |-> Error("TypeError"), reads |-> <<>>]
    ELSE [val |-> IterOf([k \in 1..ZipLen([j \in 1..Len(args) |-> args[j].items]) |->
                             Thunk(pipeline.function,
                                   [j \in 1..Len(args) |-> args[j].items[k]])]),
          reads |-> <<>>]

\* func_args of fused_func_single and fused_func_generator, slot by slot
FuncArgs(fn, args, i, got) ==
    IF i > Min(Len(fn.predecessor_pipelines), Len(args))
    THEN [vals |-> <<>>, reads |-> <<>>, error |-> "none"]
    ELSE IF i > Len(fn.pipeline.num_input_blocks)
    THEN [vals |-> <<>>, reads |-> <<>>, error |-> "IndexError"]
    ELSE IF args[i].kind # "list"
    THEN [vals |-> <<>>, reads |-> <<>>, error |-> "TypeError"]
    ELSE LET r == apply_pipeline_func(fn.predecessor_pipelines[i],
                                      fn.pipeline.num_input_blocks[i],
                                      args[i].items, got)
         IN IF r.val.kind = "error"
            THEN [vals |-> <<>>, reads |-> r.reads, error |-> r.val.type]
            ELSE LET rest == FuncArgs(fn, args, i + 1, got)
                 IN [vals |-> <<r.val>> \o rest.vals,
                     reads |-> r.reads \o rest.reads,
                     error |-> rest.error]

CallFunction(fn, args, got) ==
    CASE fn.code = "inc" ->
            [val |-> IF Len(args) = 1 /\ args[1].kind = "chunk"
                     THEN Chunk(args[1].v + 1) ELSE Error("TypeError"),
             reads |-> <<>>]
      [] fn.code = "dbl" ->
            [val |-> IF Len(args) = 1 /\ args[1].kind = "chunk"
                     THEN Chunk(args[1].v * 2) ELSE Error("TypeError"),
             reads |-> <<>>]
      [] fn.code \in {"add", "sum"} ->
            LET c == Consume(args, got)
            IN [val |-> IF c.error # "none" THEN Error(c.error) ELSE Chunk(c.total),
                reads |-> c.reads]
      [] fn.code = "split" ->
            [val |-> IF Len(args) = 1 /\ args[1].kind = "chunk"
                     THEN Gen(<<Chunk(args[1].v), Chunk(args[1].v + 1)>>)
                     ELSE Gen(<<Error("TypeError")>>),
             reads |-> <<>>]
      [] fn.code = "boom" -> [val |-> Error("ValueError"), reads |-> <<>>]
      [] fn.code = "yield_then_raise" ->
            [val |-> IF Len(args) = 1 /\ args[1].kind = "chunk"
                     THEN Gen(<<Chunk(args[1].v), Error("ValueError")>>)
                     ELSE Gen(<<Error("TypeError")>>),
             reads |-> <<>>]
      [] fn.code = "fuse.fused_func" ->
            LET r1 == CallFunction(fn.pipeline1.function, args, got)
            IN IF r1.val.kind = "error" THEN r1
               ELSE LET r2 == CallFunction(fn.pipeline2.function, <<r1.val>>, got)
                    IN [val |-> r2.val, reads |-> r1.reads \o r2.reads]
      [] fn.code \in {"fuse_multiple.fused_func_single",
                      "fuse_multiple.fused_func_generator"} ->
            LET func_args == FuncArgs(fn, args, 1, got)
                failed == Error(func_args.error)
            IN IF func_args.error # "none"
               THEN [val |-> IF fn.code = "fuse_multiple.fused_func_generator"
                             THEN Gen(<<failed>>) ELSE failed,
                     reads |-> func_args.reads]
               ELSE LET r == CallFunction(fn.pipeline.function, func_args.vals, got)
                    IN [val |-> r.val, reads |-> func_args.reads \o r.reads]

(***************************************************************************)
(* apply_blockwise, one storage access at a time.                          *)
(***************************************************************************)
\* the block coordinates of an array
Blocks(array) ==
    LET cn == normalize_chunks(array.chunks, array.shape)
    IN Range(product([ax \in 1..Len(cn) |-> Len(cn[ax])]))

\* key_to_slices of the chunk a task writes: the output key itself
out_chunk_key_of_first(out_key_tuple) == [ax \in 1..Len(out_key_tuple) |-> 0]

out_chunk_key(out_key_tuple) == out_key_tuple

\* get_chunk: the read of one chunk, or the exception of a name that is not in
\* reads_map or of a block the array does not have
ReadEvent(config, key, lazy) ==
    IF key.name \notin DOMAIN config.reads_map
    THEN [ev |-> "raise", type |-> "KeyError"]
    ELSE IF key.coords \notin Blocks(config.reads_map[key.name].array)
    THEN [ev |-> "raise", type |-> "IndexError"]
    ELSE [ev |-> "read", name |-> key.name, coords |-> key.coords, lazy |-> lazy]

\* the results of the kernel as apply_blockwise iterates over them
Results(config, r) ==
    IF config.function.gen
    THEN IF r.val.kind = "gen" THEN r.val.items ELSE <<Error("TypeError")>>
    ELSE <<r.val>>

\* the write of result i, or the exception instead of it
WriteEvent(config, out_key_tuple, results, i) ==
    IF results[i].kind = "error" THEN [ev |-> "raise", type |-> results[i].type]
    ELSE IF i > Len(config.writes_list) THEN [ev |-> "raise", type |-> "IndexError"]
    ELSE IF out_chunk_key(out_key_tuple) \notin Blocks(config.writes_list[i].array)
    THEN [ev |-> "raise", type |-> "IndexError"]
    ELSE IF results[i].kind # "chunk" THEN [ev |-> "raise", type |-> "TypeError"]
    ELSE [ev |-> "write", i |-> i, name |-> config.writes_list[i].array.name,
          coords |-> out_chunk_key(out_key_tuple)]

\* a task stops at the first exception
UpToRaise(events) ==
    IF \E i \in 1..Len(events) : events[i].ev = "raise"
    THEN SubSeq(events, 1, CHOOSE i \in 1..Len(events) :
                              /\ events[i].ev = "raise"
                              /\ \A j \in 1..(i - 1) : events[j].ev # "raise")
    ELSE events

\* the kernel's results for the chunks the task has read
Compute(config, out_key_tuple, got) ==
    LET name_chunk_inds == CallBlockFunction(config.block_function,
                                             <<Key("out", out_key_tuple)>>).value
        args == [i \in 1..Len(name_chunk_inds) |-> map_nested(got, name_chunk_inds[i])]
    IN CallFunction(config.function, args, got)

\* the storage accesses of apply_blockwise(out_key, config), in order
Plan(config, out_key) ==
    LET out_key_tuple == out_key.coords
        name_chunk_inds == CallBlockFunction(config.block_function,
                                             <<Key("out", out_key_tuple)>>)
    IN IF name_chunk_inds.raised # "none"
       THEN <<[ev |-> "raise", type |-> name_chunk_inds.raised]>>
       ELSE LET eager == Concat([i \in 1..Len(name_chunk_inds.value) |->
                                    EagerLeaves(name_chunk_inds.value[i])])
                r == Compute(config, out_key_tuple, <<>>)
                results == Results(config, r)
            IN UpToRaise(
                  [i \in 1..Len(eager) |-> ReadEvent(config, eager[i], FALSE)]
                  \o <<[ev |-> "start"]>>
                  \o [i \in 1..Len(r.reads) |-> ReadEvent(config, r.reads[i], TRUE)]
                  \o [i \in 1..Len(results) |->
                         WriteEvent(config, out_key_tuple, results, i)])

\* a task before its first step
NewTask(config, out_key) ==
    [key |-> out_key.coords, plan |-> Plan(config, out_key), log |-> <<>>,
     got |-> <<>>, status |-> "running", began |-> [after |-> {}, during |-> {}]]

Unwritten == [v |-> 0, by |-> {}]

SetItemAdding(old, result) == old + result

\* config.writes_list[i].open()[out_chunk_key] = result: what the chunk holds
\* after the assignment
SetItem(old, result) == result

\* the next storage access of a task
StepTask(config, task, st) ==
    LET e == task.plan[Len(task.log) + 1]
        finished == Len(task.log) + 1 = Len(task.plan)
        status == IF e.ev = "raise" THEN "failed"
                  ELSE IF finished THEN "done" ELSE "running"
    IN CASE e.ev = "read" ->
              LET v == st[e.name][e.coords].v
              IN [task |-> [task EXCEPT !.log = Append(@, [e EXCEPT !.ev = "read"] @@ [v |-> v]),
                                        !.got = (<<e.name, e.coords>> :> v) @@ @,
                                        !.status = status],
                  store |-> st]
         [] e.ev = "write" ->
              LET v == Results(config, Compute(config, task.key, task.got))[e.i].v
              IN [task |-> [task EXCEPT !.log = Append(@, e @@ [v |-> v]),
                                        !.status = status],
                  store |-> [st EXCEPT ![e.name][e.coords] =
                                [v |-> SetItem(@.v, v), by |-> @.by \cup {task.key}]]]
         [] OTHER ->
              [task |-> [task EXCEPT !.log = Append(@, e), !.status = status],
               store |-> st]

\* one task from its first storage access to its last
RECURSIVE RunTask(_, _, _)
RunTask(config, task, st) ==
    IF task.status # "running" THEN [task |-> task, store |-> st]
    ELSE LET r == StepTask(config, task, st) IN RunTask(config, r.task, r.store)

\* for m in stage.mappable: the tasks of an operation one after the other,
\* from task t on, up to the first that raises
RECURSIVE RunOp(_, _, _)
RunOp(op, t, st) ==
    IF t > Len(op.mappable) THEN [raised |-> "none", store |-> st]
    ELSE LET r == RunTask(op.config, NewTask(op.config, op.mappable[t]), st)
         IN IF r.task.status = "failed"
            THEN [raised |-> r.task.log[Len(r.task.log)].type, store |-> r.store]
            ELSE RunOp(op, t + 1, r.store)

\* operations one after the other, each materializing its targets
RECURSIVE RunSequentially(_, _)
RunSequentially(stages, st) ==
    IF Len(stages) = 0 THEN [raised |-> "none", store |-> st]
    ELSE LET r == RunOp(Head(stages), 1, st)
         IN IF r.raised # "none" THEN r ELSE RunSequentially(Tail(stages), r.store)

(***************************************************************************)
(* The operations run: each operation of the catalogue as built, and the   *)
(* rewrites fuse and fuse_multiple of those that the decisions admit.      *)
(***************************************************************************)
MaxChunkValue == 1

\* x writes an array that y reads
Feeds(x, y) == TargetNames(x) \cap Range(y.source_array_names) # {}

\* the operations run: producers and consumers over the arrays a and b
RunProducers == {Q1, Q2, Q3, Q4, Q6}

RunConsumers == {P1, P2, P4, P5, P8, P10, P11, P12, P13}

\* the rewrites run: fuse of two operations one of which feeds the other, in
\* either order of the arguments, and fuse_multiple of a consumer and the
\* producers of its inputs, each where the decision function admits it
FusePairs ==
    {x \in (RunProducers \X RunConsumers) \cup (RunConsumers \X RunProducers) :
        /\ can_fuse_primitive_ops(x[1], x[2])
        /\ Feeds(x[1], x[2]) \/ Feeds(x[2], x[1])}

FuseMultiples ==
    {x \in UNION {{<<op, ps>> : ps \in PredecessorLists(op)} : op \in RunConsumers} :
        /\ \A i \in 1..Len(x[2]) : IsNone(x[2][i]) \/ x[2][i] \in RunProducers
        /\ \E i \in 1..Len(x[2]) : ~IsNone(x[2][i])
        /\ \E mx \in {NoMax, MaxOf(MaxTotalBlocks)} :
              can_fuse_multiple_primitive_ops(x[1], SelectNotNone(x[2]), mx) = Returns(TRUE)}

\* an operation as built, the fuse of a pair, the fuse_multiple of a consumer
\* and the producers of its inputs: what is run, and the operations it is of
RunBuilt(op) ==
    [how |-> "general_blockwise", args |-> [primitive_op |-> op],
     stages |-> <<op>>, op |-> op]

RunFused(x) ==
    [how |-> "fuse", args |-> [primitive_op1 |-> x[1], primitive_op2 |-> x[2]],
     stages |-> IF Feeds(x[1], x[2]) THEN <<x[1], x[2]>> ELSE <<x[2], x[1]>>,
     op |-> fuse(x[1], x[2]).op]

RunFusedMultiple(x) ==
    [how |-> "fuse_multiple",
     args |-> [primitive_op |-> x[1], predecessor_primitive_ops |-> x[2]],
     stages |-> SelectNotNone(x[2]) \o <<x[1]>>,
     op |-> fuse_multiple(x[1], x[2]).op]

RunScenarios ==
    {RunBuilt(op) : op \in RunProducers \cup RunConsumers}
    \cup {RunFused(x) : x \in FusePairs}
    \cup {RunFusedMultiple(x) : x \in FuseMultiples}

\* the arrays the operations read and write, as (name, blocks)
ArraysOf(stages) ==
    UNION {{[name |-> n, blocks |-> Blocks(stages[i].config.reads_map[n].array)] :
               n \in DOMAIN stages[i].config.reads_map}
           \cup {[name |-> stages[i].config.writes_list[j].array.name,
                  blocks |-> Blocks(stages[i].config.writes_list[j].array)] :
                    j \in 1..Len(stages[i].config.writes_list)} :
           i \in 1..Len(stages)}

\* the chunks that exist before the run: those of the arrays no operation writes
SourceKeys(stages) ==
    UNION {{<<a.name, c>> : c \in a.blocks} :
           a \in {b \in ArraysOf(stages) :
                     \A i \in 1..Len(stages) : b.name \notin TargetNames(stages[i])}}

InitialStorage(stages, content) ==
    [n \in {a.name : a \in ArraysOf(stages)} |->
        LET a == CHOOSE b \in ArraysOf(stages) : b.name = n
        IN [c \in a.blocks |->
               IF <<n, c>> \in DOMAIN content
               THEN [v |-> content[<<n, c>>], by |-> {}]
               ELSE Unwritten]]

InitRun ==
    \E sc \in RunScenarios :
       \E content \in [SourceKeys(sc.stages) -> 0..MaxChunkValue] :
          /\ last = [call |-> "run", how |-> sc.how, args |-> sc.args,
                     stages |-> sc.stages,
                     storage |-> InitialStorage(sc.stages, content)]
          /\ ops = <<sc.op>>
          /\ storage = InitialStorage(sc.stages, content)
          /\ tasks = [t \in 1..Len(sc.op.mappable) |->
                         NewTask(sc.op.config, sc.op.mappable[t])]
          /\ executor = NoExecutor

\* the next storage access of task t is of kind ev
Step(t, ev) ==
    /\ tasks[t].status = "running"
    /\ tasks[t].plan[Len(tasks[t].log) + 1].ev = ev
    /\ LET r == StepTask(ops[1].config, tasks[t], storage)
           began == IF Len(tasks[t].log) > 0 THEN tasks[t].began
                    ELSE [after |-> {k \in DOMAIN tasks : tasks[k].status # "running"},
                          during |-> {k \in DOMAIN tasks :
                                         /\ tasks[k].status = "running"
                                         /\ Len(tasks[k].log) > 0}]
       IN /\ tasks' = [tasks EXCEPT ![t] = [r.task EXCEPT !.began = began]]
          /\ storage' = r.store
    /\ UNCHANGED <<last, ops, executor>>

GetChunk == \E t \in DOMAIN tasks : Step(t, "read")

StartKernel == \E t \in DOMAIN tasks : Step(t, "start")

WriteChunk == \E t \in DOMAIN tasks : Step(t, "write")

RaiseError == \E t \in DOMAIN tasks : Step(t, "raise")

NextRun == GetChunk \/ StartKernel \/ WriteChunk \/ RaiseError

SpecRun == InitRun /\ [][NextRun]_vars

(***************************************************************************)
(* C2, C3, C9, C10: the tasks of an operation, run.                        *)
(***************************************************************************)
Terminated == last.call = "run" /\ \A t \in DOMAIN tasks : tasks[t].status # "running"

AllDone == last.call = "run" /\ \A t \in DOMAIN tasks : tasks[t].status = "done"

\* of the operations fused, the one that reads what the others write
ConsumerOf(stages) == stages[Len(stages)]

\* C2: for operations P and Q that can_fuse_primitive_ops admits, one feeding
\* the other, running fuse(P, Q) once for every output key leaves the final
\* target with the contents that all tasks of the producer and then all tasks
\* of the consumer leave there, for every content of the inputs.
C2_FuseIsSequential ==
    (Terminated /\ last.how = "fuse"
     /\ can_fuse_primitive_ops(last.args.primitive_op1, last.args.primitive_op2)) =>
        LET sequential == RunSequentially(last.stages, last.storage)
        IN /\ AllDone
           /\ \A n \in TargetNames(ConsumerOf(last.stages)) :
                 storage[n] = sequential.store[n]

\* the writes a task has made
Writes(task) == SelectSeq(task.log, LAMBDA e : e.ev = "write")

NeverWritten(n) == \A c \in DOMAIN storage[n] : storage[n][c].by = {}

\* the operation fuse and fuse_multiple take as the consumer, and the others
SecondOf(run) ==
    IF run.how = "fuse" THEN run.args.primitive_op2 ELSE run.args.primitive_op

FirstsOf(run) ==
    IF run.how = "fuse" THEN <<run.args.primitive_op1>>
    ELSE SelectNotNone(run.args.predecessor_primitive_ops)

\* the pair of the scenario is fused: the target of x+1 is never written and
\* the target of y*2 holds (x+1)*2
PairOutcome ==
    /\ AllDone
    /\ NeverWritten("t1")
    /\ \A c \in DOMAIN storage["u"] :
          /\ storage["u"][c].by # {}
          /\ storage["u"][c].v = (last.storage["a"][c].v + 1) * 2

\* C3: with P2 = x -> x+1 writing t1 (Q1) and P1 = y -> y*2 reading t1 and
\* writing u (P1), the operation fuse(P1, P2) returns never writes t1 and
\* leaves (x+1)*2 in u; and a fused operation writes to the targets of the
\* consumer only, never to the target of a fused predecessor.
C3_FusePairAsWritten ==
    (Terminated /\ last.how \in {"fuse", "fuse_multiple"}) =>
        /\ (last.how = "fuse" /\ last.args.primitive_op1 = P1
            /\ last.args.primitive_op2 = Q1) => PairOutcome
        /\ \A t \in DOMAIN tasks : \A k \in 1..Len(Writes(tasks[t])) :
              /\ Writes(tasks[t])[k].name \in TargetNames(ConsumerOf(last.stages))
              /\ \A i \in 1..(Len(last.stages) - 1) :
                    Writes(tasks[t])[k].name \notin TargetNames(last.stages[i])

\* C3 amended: the scenario holds of fuse(P2, P1), the producer first; and
\* the operation a rewrite returns writes to the targets of the operation
\* passed as the consumer (the second argument of fuse, the first of
\* fuse_multiple) only, never to the target of another operation fused.
C3_ProducerFirst ==
    (Terminated /\ last.how \in {"fuse", "fuse_multiple"}) =>
        /\ (last.how = "fuse" /\ last.args.primitive_op1 = Q1
            /\ last.args.primitive_op2 = P1) => PairOutcome
        /\ \A t \in DOMAIN tasks : \A k \in 1..Len(Writes(tasks[t])) :
              /\ Writes(tasks[t])[k].name \in TargetNames(SecondOf(last))
              /\ \A i \in 1..Len(FirstsOf(last)) :
                    Writes(tasks[t])[k].name \notin TargetNames(FirstsOf(last)[i])

\* fuse(P2, P1) has run over both keys of an input with a chunk of 1
C3_Witness ==
    /\ AllDone
    /\ last.how = "fuse"
    /\ last.args.primitive_op1 = Q1
    /\ last.args.primitive_op2 = P1
    /\ last.storage["a"][<<0>>].v = 1
    /\ storage["u"][<<0>>] = [v |-> 4, by |-> {<<0>>}]
    /\ storage["t1"][<<0>>] = Unwritten

\* the reads a task has made
Reads(task) == SelectSeq(task.log, LAMBDA e : e.ev = "read")

StartOf(task) ==
    IF \E k \in 1..Len(task.log) : task.log[k].ev = "start"
    THEN CHOOSE k \in 1..Len(task.log) : task.log[k].ev = "start"
    ELSE Len(task.log) + 1

\* the (name, coords) of the keys under an iterator
RECURSIVE KeysUnderIterator(_, _)
KeysUnderIterator(node, under) ==
    CASE node.kind = "key" -> IF under THEN {<<node.name, node.coords>>} ELSE {}
      [] node.kind = "list" ->
            UNION {KeysUnderIterator(node.items[i], under) : i \in 1..Len(node.items)}
      [] node.kind = "iter" ->
            UNION {KeysUnderIterator(node.items[i], TRUE) : i \in 1..Len(node.items)}
      [] OTHER -> {}

LazyKeys(task) ==
    LET r == CallBlockFunction(ops[1].config.block_function, <<Key("out", task.key)>>)
    IN IF r.raised # "none" THEN {}
       ELSE UNION {KeysUnderIterator(r.value[i], FALSE) : i \in 1..Len(r.value)}

\* result i is written i-th, to write proxy i, after the kernel has started
WritesInYieldOrder(task) ==
    \A k \in 1..Len(task.log) :
       task.log[k].ev = "write" =>
          LET i == Len(SelectSeq(SubSeq(task.log, 1, k), LAMBDA e : e.ev = "write"))
          IN /\ k > StartOf(task)
             /\ task.log[k].i = i
             /\ task.log[k].name = ops[1].config.writes_list[i].array.name
             /\ task.log[k].v =
                   Results(ops[1].config, Compute(ops[1].config, task.key, task.got))[i].v

\* C10: in every task, of a plain operation or a fused one, every chunk is
\* read before the kernel starts, and the results of the kernel are written
\* in the order yielded, result i to write proxy i.
C10_AllReadBeforeKernel ==
    last.call = "run" =>
        \A t \in DOMAIN tasks :
           /\ \A k \in 1..Len(tasks[t].log) :
                 tasks[t].log[k].ev = "read" => k < StartOf(tasks[t])
           /\ WritesInYieldOrder(tasks[t])

\* C10 amended: the chunks whose keys the block function returns as tuples
\* or in lists are read before the kernel starts; the chunks whose keys it
\* returns under an iterator are read after the kernel has started, as the
\* kernel consumes them; the results are written in the order yielded,
\* result i to write proxy i.
C10_LazyReadsInKernel ==
    last.call = "run" =>
        \A t \in DOMAIN tasks :
           /\ \A k \in 1..Len(tasks[t].log) :
                 tasks[t].log[k].ev = "read" =>
                    (k < StartOf(tasks[t]) <=>
                        <<tasks[t].log[k].name, tasks[t].log[k].coords>>
                            \notin LazyKeys(tasks[t]))
           /\ WritesInYieldOrder(tasks[t])

\* a task of a fused operation has read a chunk under an iterator while the
\* kernel ran, and has written its result
C10_Witness ==
    /\ AllDone
    /\ last.how = "fuse_multiple"
    /\ \E t \in DOMAIN tasks : \E k \in 1..Len(tasks[t].log) :
          /\ tasks[t].log[k].ev = "read"
          /\ k > StartOf(tasks[t])

(***************************************************************************)
(* The tasks of an operation under a runtime that may run a task again:    *)
(* a storage access may fail, a task may be cancelled between two of its   *)
(* storage accesses, and a task that is no longer running may be run       *)
(* again for the same key.                                                 *)
(***************************************************************************)
\* the operations run again: one target and two, fused in either order of
\* the arguments, a fused operation whose block function raises, and a
\* fused operation that reads while its kernel runs
RerunScenarios ==
    {RunBuilt(Q1), RunBuilt(Q4), RunFused(<<Q1, P1>>), RunFused(<<P5, Q1>>),
     RunFused(<<Q1, P5>>), RunFusedMultiple(<<P12, <<Q1>>>>)}

InitRerun ==
    \E sc \in RerunScenarios :
       \E content \in [SourceKeys(sc.stages) -> 0..MaxChunkValue] :
          /\ last = [call |-> "run", how |-> sc.how, args |-> sc.args,
                     stages |-> sc.stages,
                     storage |-> InitialStorage(sc.stages, content)]
          /\ ops = <<sc.op>>
          /\ storage = InitialStorage(sc.stages, content)
          /\ tasks = [t \in 1..Len(sc.op.mappable) |->
                         NewTask(sc.op.config, sc.op.mappable[t])]
          /\ executor = [state |-> "rerun", after |-> {}]

\* arr[chunk_key] or arr[chunk_key] = result raises in the storage
StorageFailure ==
    \E t \in DOMAIN tasks :
       /\ tasks[t].status = "running"
       /\ tasks[t].plan[Len(tasks[t].log) + 1].ev \in {"read", "write"}
       /\ tasks' = [tasks EXCEPT ![t].status = "failed",
                                 ![t].log = Append(@, [ev |-> "raise",
                                                       type |-> "StorageIOFailure"])]
       /\ UNCHANGED <<last, ops, storage, executor>>

\* the runtime cancels a task that has begun
Cancel ==
    \E t \in DOMAIN tasks :
       /\ tasks[t].status = "running"
       /\ Len(tasks[t].log) > 0
       /\ tasks' = [tasks EXCEPT ![t].status = "cancelled"]
       /\ UNCHANGED <<last, ops, storage, executor>>

\* the runtime calls apply_blockwise again for the key of a task that has
\* completed, failed or been cancelled: once after each of the three
Rerun ==
    \E t \in DOMAIN tasks :
       /\ executor.state = "rerun"
       /\ tasks[t].status # "running"
       /\ tasks[t].status \notin executor.after
       /\ tasks' = [tasks EXCEPT ![t] = NewTask(ops[1].config, ops[1].mappable[t])]
       /\ executor' = [executor EXCEPT !.after = @ \cup {tasks[t].status}]
       /\ UNCHANGED <<last, ops, storage>>

NextRerun ==
    GetChunk \/ StartKernel \/ WriteChunk \/ RaiseError \/ StorageFailure \/ Cancel \/ Rerun

SpecRerun == InitRerun /\ [][NextRerun]_vars

(***************************************************************************)
(* C11: what a task writes, and running it again.                          *)
(***************************************************************************)
\* task t alone, once, from the arrays as they were before the run
SingleRun(t) ==
    RunTask(ops[1].config, NewTask(ops[1].config, ops[1].mappable[t]), last.storage)

\* the target chunks at the key of task t hold what a single run leaves there
AsSingleRun(t) ==
    \A n \in TargetNames(ops[1]) :
       tasks[t].key \in DOMAIN storage[n] =>
          storage[n][tasks[t].key].v = SingleRun(t).store[n][tasks[t].key].v

\* the operation reads an array it writes
ReadsOwnTarget(op) == TargetNames(op) \cap DOMAIN op.config.reads_map # {}

\* C11: a task that has completed has written exactly one chunk, the chunk at
\* its output key, and however often it was run before for that key (runs
\* that completed, failed or were cancelled part-way) the target holds at
\* that key what a single successful run leaves there.
C11_OneChunkIdempotent ==
    last.call = "run" =>
        \A t \in DOMAIN tasks :
           tasks[t].status = "done" =>
              /\ Len(Writes(tasks[t])) = 1
              /\ Writes(tasks[t])[1].coords = tasks[t].key
              /\ AsSingleRun(t)

\* C11 amended: a task writes one chunk for each target of its operation,
\* the chunk at its output key, result i to target i; and for an operation
\* that reads none of the arrays it writes, however often a task was run
\* before for its key (runs that completed, failed or were cancelled
\* part-way), once it has completed the targets hold at that key what a
\* single successful run leaves there, and once all tasks have completed the
\* arrays hold what running every task once leaves.
C11_ChunkPerTargetIdempotent ==
    last.call = "run" =>
        /\ \A t \in DOMAIN tasks :
              /\ \A k \in 1..Len(Writes(tasks[t])) :
                    /\ Writes(tasks[t])[k].coords = tasks[t].key
                    /\ Writes(tasks[t])[k].i = k
                    /\ Writes(tasks[t])[k].name = ops[1].config.writes_list[k].array.name
              /\ tasks[t].status = "done" =>
                    /\ Len(Writes(tasks[t])) = Len(ops[1].config.writes_list)
                    /\ ~ReadsOwnTarget(ops[1]) => AsSingleRun(t)
        /\ (AllDone /\ ~ReadsOwnTarget(ops[1])) =>
              \A n \in DOMAIN storage : \A c \in DOMAIN storage[n] :
                 storage[n][c].v = RunOp(ops[1], 1, last.storage).store[n][c].v

\* the tasks of an operation of two targets have all completed, after runs
\* that completed, failed and were cancelled were followed by another run
C11_Witness ==
    /\ AllDone
    /\ executor.state = "rerun"
    /\ executor.after = {"done", "failed", "cancelled"}
    /\ Len(ops[1].config.writes_list) = 2
    /\ \A t \in DOMAIN tasks : Len(Writes(tasks[t])) = 2
    /\ storage["t5"][<<1>>].v = last.storage["a"][<<1>>].v + 1

(***************************************************************************)
(* C12: the peak projected memory of a sequence of operations.             *)
(***************************************************************************)
\* C12: peak_projected_mem over [Q_1..Q_n] returns the maximum over i of
\* Q_i.projected_mem plus the chunk bytes of the targets of Q_1..Q_(i-1),
\* and 0 for the empty sequence.
C12_PeakIsHighWaterMark ==
    last.call = "peak_projected_mem" =>
        last.ret = Returns(HighWaterMark(last.args.primitive_ops))

(***************************************************************************)
(* PythonDagExecutor.execute_dag: the nodes of a dag one after the other,  *)
(* the tasks of a node one after the other, each task through              *)
(* exec_stage_func, which calls the stage function again when it raises.   *)
(***************************************************************************)
\* stage.mappable: None, or the items to call the stage function on
Mappable(items) == [items |-> items]

\* the pipeline of a primitive operation: one stage, apply_blockwise over the
\* output keys
PipelineOf(op) ==
    [stages |-> <<[function |-> op.function, mappable |-> Mappable(op.mappable)]>>,
     config |-> op.config, op |-> op]

\* a pipeline of one stage without a mappable, that reads and writes no chunk
CreateArrays ==
    [stages |-> <<[function |-> "create_arrays", mappable |-> None]>>,
     config |-> None, op |-> None]

\* a dag: nodes, edges from a node to the nodes it depends on, and the
\* "pipeline" attribute of the nodes that have one
Dag(nodes, edges, pipeline) == [nodes |-> nodes, edges |-> edges, pipeline |-> pipeline]

\* nx.get_node_attributes(dag, "pipeline").get(node, None)
PipelineAt(dag, node) ==
    IF node \in DOMAIN dag.pipeline THEN dag.pipeline[node] ELSE None

\* list(nx.topological_sort(dag)): any order with every edge going forward
topological_sort(dag) ==
    {s \in [1..Cardinality(dag.nodes) -> dag.nodes] :
        /\ \A i, j \in DOMAIN s : i # j => s[i] # s[j]
        /\ \A e \in dag.edges :
              \E i, j \in DOMAIN s : i < j /\ s[i] = e[1] /\ s[j] = e[2]}

reversed(s) == [i \in 1..Len(s) |-> s[Len(s) + 1 - i]]

\* the dags executed: a producer and its consumer; an operation whose kernel
\* raises, and one that depends on it; a generator kernel that raises after
\* its first result; an operation after a stage without a mappable
ExecDags ==
    {Dag({"a", "op-q1", "t1", "op-p1", "u"},
         {<<"op-q1", "a">>, <<"t1", "op-q1">>, <<"op-p1", "t1">>, <<"u", "op-p1">>},
         [n \in {"op-q1", "op-p1"} |->
             IF n = "op-q1" THEN PipelineOf(Q1) ELSE PipelineOf(P1)]),
     Dag({"a", "op-q7", "op-p1"},
         {<<"op-q7", "a">>, <<"op-p1", "op-q7">>},
         [n \in {"op-q7", "op-p1"} |->
             IF n = "op-q7" THEN PipelineOf(Q7) ELSE PipelineOf(P1)]),
     Dag({"a", "op-q8"},
         {<<"op-q8", "a">>},
         [n \in {"op-q8"} |-> PipelineOf(Q8)]),
     Dag({"a", "create-arrays", "op-q4"},
         {<<"op-q4", "a">>, <<"op-q4", "create-arrays">>},
         [n \in {"create-arrays", "op-q4"} |->
             IF n = "op-q4" THEN PipelineOf(Q4) ELSE CreateArrays])}

\* the operations of a dag
OpsOf(dag) ==
    LET named == {n \in DOMAIN dag.pipeline : ~IsNone(dag.pipeline[n].op)}
        RECURSIVE AsSeq(_)
        AsSeq(S) == IF S = {} THEN <<>>
                    ELSE LET n == CHOOSE x \in S : TRUE
                         IN <<dag.pipeline[n].op>> \o AsSeq(S \ {n})
    IN AsSeq(named)

\* task_callback: None, or an object that counts the calls of increment
TaskCallback == [count |-> 0]

InitExec ==
    \E dag \in ExecDags :
       \E order \in topological_sort(dag) :
          \E content \in [SourceKeys(OpsOf(dag)) -> 0..MaxChunkValue] :
             \E task_callback \in {None, TaskCallback} :
                /\ last = [call |-> "execute_dag",
                           args |-> [dag |-> dag, task_callback |-> task_callback],
                           storage |-> InitialStorage(OpsOf(dag), content)]
                /\ ops = <<>>
                /\ storage = InitialStorage(OpsOf(dag), content)
                /\ tasks = <<>>
                /\ executor = [state |-> "running", dag |-> dag,
                               order |-> reversed(order),
                               node |-> 1, stage |-> 1, m |-> 1, attempt_number |-> 0,
                               task_callback |-> task_callback, calls |-> <<>>]

Executing == executor.state = "running" /\ executor.node <= Len(executor.order)

pipeline == PipelineAt(executor.dag, executor.order[executor.node])

stage == pipeline.stages[executor.stage]

\* a call of the stage function that has ended, and how
Call(outcome) ==
    [node |-> executor.order[executor.node], stage |-> executor.stage, m |-> executor.m,
     attempt_number |-> executor.attempt_number, outcome |-> outcome]

\* tenacity's stop_after_attempt(3): no further attempt after this one
stop_after_four(attempt_number) == attempt_number >= 4

stop(attempt_number) == attempt_number >= 3

\* task_callback.increment(), if there is a callback
increment(task_callback) ==
    IF IsNone(task_callback) THEN task_callback
    ELSE [task_callback EXCEPT !.count = @ + 1]

\* the executor after the stage function has returned: the next item of the
\* mappable, the next stage, the next node
Advance(ex) ==
    LET p == PipelineAt(ex.dag, ex.order[ex.node])
        st == p.stages[ex.stage]
    IN IF ~IsNone(st.mappable) /\ ex.m < Len(st.mappable.items)
       THEN [ex EXCEPT !.m = @ + 1, !.attempt_number = 0]
       ELSE IF ex.stage < Len(p.stages)
       THEN [ex EXCEPT !.stage = @ + 1, !.m = 1, !.attempt_number = 0]
       ELSE [ex EXCEPT !.node = @ + 1, !.stage = 1, !.m = 1, !.attempt_number = 0]

\* if pipeline is None: continue
SkipNode ==
    /\ Executing
    /\ IsNone(pipeline)
    /\ executor' = [executor EXCEPT !.node = @ + 1]
    /\ UNCHANGED <<last, ops, storage, tasks>>

\* exec_stage_func(stage.function, m, config=pipeline.config): the first call
\* of apply_blockwise for the item m
CallStageFunction ==
    /\ Executing
    /\ ~IsNone(pipeline)
    /\ ~IsNone(stage.mappable)
    /\ executor.attempt_number = 0
    /\ ops' = <<pipeline.op>>
    /\ tasks' = <<NewTask(pipeline.config, stage.mappable.items[executor.m])>>
    /\ executor' = [executor EXCEPT !.attempt_number = 1]
    /\ UNCHANGED <<last, storage>>

\* the call raised and stop says to go on: the stage function is called again
Retry ==
    /\ Executing
    /\ executor.attempt_number > 0
    /\ tasks # <<>>
    /\ tasks[1].status = "failed"
    /\ ~stop(executor.attempt_number)
    /\ tasks' = <<NewTask(pipeline.config, stage.mappable.items[executor.m])>>
    /\ executor' = [executor EXCEPT
                       !.attempt_number = @ + 1,
                       !.calls = Append(@, Call(tasks[1].log[Len(tasks[1].log)].type))]
    /\ UNCHANGED <<last, ops, storage>>

\* the call raised and stop says to stop: RetryError leaves execute_dag
GiveUp ==
    /\ Executing
    /\ executor.attempt_number > 0
    /\ tasks # <<>>
    /\ tasks[1].status = "failed"
    /\ stop(executor.attempt_number)
    /\ tasks' = <<>>
    /\ executor' = [executor EXCEPT
                       !.state = "raised",
                       !.calls = Append(@, Call(tasks[1].log[Len(tasks[1].log)].type))]
    /\ UNCHANGED <<last, ops, storage>>

\* the call returned: task_callback.increment(), and on to the next item
Return ==
    /\ Executing
    /\ executor.attempt_number > 0
    /\ tasks # <<>>
    /\ tasks[1].status = "done"
    /\ tasks' = <<>>
    /\ executor' = Advance([executor EXCEPT
                               !.calls = Append(@, Call("done")),
                               !.task_callback = increment(@)])
    /\ UNCHANGED <<last, ops, storage>>

\* exec_stage_func(stage.function, config=pipeline.config) of a stage without
\* a mappable: the call returns, or raises and is made again, or raises and
\* stop says to stop
CallStageFunctionOnce ==
    /\ Executing
    /\ ~IsNone(pipeline)
    /\ IsNone(stage.mappable)
    /\ LET ex == [executor EXCEPT !.attempt_number = @ + 1]
           ended(outcome) ==
              Append(executor.calls,
                     [node |-> ex.order[ex.node], stage |-> ex.stage, m |-> ex.m,
                      attempt_number |-> ex.attempt_number, outcome |-> outcome])
       IN \/ executor' = Advance([ex EXCEPT !.calls = ended("done"),
                                            !.task_callback = increment(@)])
          \/ /\ ~stop(ex.attempt_number)
             /\ executor' = [ex EXCEPT !.calls = ended("StorageIOFailure")]
          \/ /\ stop(ex.attempt_number)
             /\ executor' = [ex EXCEPT !.calls = ended("StorageIOFailure"),
                                       !.state = "raised"]
    /\ UNCHANGED <<last, ops, storage, tasks>>

\* the loop over the nodes has ended
ReturnFromExecuteDag ==
    /\ executor.state = "running"
    /\ executor.node > Len(executor.order)
    /\ executor' = [executor EXCEPT !.state = "returned"]
    /\ UNCHANGED <<last, ops, storage, tasks>>

NextExec ==
    \/ SkipNode \/ CallStageFunction \/ CallStageFunctionOnce
    \/ GetChunk \/ StartKernel \/ WriteChunk \/ RaiseError \/ StorageFailure
    \/ Retry \/ GiveUp \/ Return \/ ReturnFromExecuteDag

SpecExec == InitExec /\ [][NextExec]_vars

(***************************************************************************)
(* C13, C15: the calls execute_dag makes.                                  *)
(***************************************************************************)
\* the task a call was for
KeyOf(c) == <<c.node, c.stage, c.m>>

\* the calls that have ended, and the task of the call being made, if any
Calls == executor.calls

Calling == last.call = "execute_dag" /\ tasks # <<>>

CurrentKey == <<executor.order[executor.node], executor.stage, executor.m>>

\* the call ended with the exception of the kernel
KernelRaised(c) == c.outcome = "ValueError"

\* the task has written its results up to the one that failed, and the chunk
\* of the failed result has no writer
FailedResultUnwritten(task) ==
    LET n == Len(Writes(task))
        writes_list == ops[1].config.writes_list
    IN /\ n < Len(writes_list)
       /\ storage[writes_list[n + 1].array.name][task.key].by = {}

\* C13: when the kernel has raised in a task, the exception ends the task,
\* nothing is written for the failed result, and the kernel is not invoked
\* again for that key: no later call of the stage function is for the key.
C13_KernelRaiseIsFatal ==
    last.call = "execute_dag" =>
        /\ \A i \in DOMAIN Calls :
              KernelRaised(Calls[i]) =>
                 /\ \A j \in DOMAIN Calls : j > i => KeyOf(Calls[j]) # KeyOf(Calls[i])
                 /\ Calling => CurrentKey # KeyOf(Calls[i])
        /\ \A t \in DOMAIN tasks :
              (/\ tasks[t].status = "failed"
               /\ tasks[t].log[Len(tasks[t].log)].type = "ValueError") =>
                 FailedResultUnwritten(tasks[t])

\* the number of calls that have ended with outcome o
Count(o) == Cardinality({i \in DOMAIN Calls : Calls[i].outcome = o})

MaxFusions == 2

\* the operations built first: allowed_mem 20 and 12; 20, 20 and 30; 20, 20
\* and 16; 20 throughout, twice; 20, 20, 30 and 12
ComposePools ==
    {<<Q2, P7>>, <<Q1, Q2, P2>>, <<Q1, Q2, P6>>, <<Q2, Q4, P8>>, <<Q6, P12, Q3, P10>>,
     <<Q1, Q2, P2, P1>>}

InitCompose ==
    /\ \E pool \in ComposePools :
          /\ ops = pool
          /\ last = [call |-> "compose", base |-> pool, fuse |-> 0, fuse_multiple |-> 0]
    /\ storage = <<>>
    /\ tasks = <<>>
    /\ executor = NoExecutor

\* fuse of two of the operations there are, where the decision admits them
ComposeFuse ==
    /\ last.call = "compose"
    /\ last.fuse + last.fuse_multiple < MaxFusions
    /\ \E i, j \in DOMAIN ops :
          /\ i # j
          /\ can_fuse_primitive_ops(ops[i], ops[j])
          /\ LET r == fuse(ops[i], ops[j])
             IN /\ r.raised = "none"
                /\ r.op \notin Range(ops)
                /\ ops' = Append(ops, r.op)
    /\ last' = [last EXCEPT !.fuse = @ + 1]
    /\ UNCHANGED <<storage, tasks, executor>>

\* fuse_multiple of one of the operations there are and, for each of its
\* inputs, None or an operation that writes the input, where the decision
\* admits them without a limit or with the limit MaxTotalBlocks
ComposeFuseMultiple ==
    /\ last.call = "compose"
    /\ last.fuse + last.fuse_multiple < MaxFusions
    /\ \E i \in DOMAIN ops :
          \E ps \in {qs \in [1..Len(ops[i].source_array_names) -> Range(ops) \cup {None}] :
                        \A k \in DOMAIN qs :
                           IsNone(qs[k])
                           \/ ops[i].source_array_names[k] \in TargetNames(qs[k])} :
             /\ \E k \in DOMAIN ps : ~IsNone(ps[k])
             /\ \E mx \in {NoMax, MaxOf(MaxTotalBlocks)} :
                   can_fuse_multiple_primitive_ops(ops[i], SelectNotNone(ps), mx)
                      = Returns(TRUE)
             /\ LET r == fuse_multiple(ops[i], ps)
                IN /\ r.raised = "none"
                   /\ r.op \notin Range(ops)
                   /\ ops' = Append(ops, r.op)
    /\ last' = [last EXCEPT !.fuse_multiple = @ + 1]
    /\ UNCHANGED <<storage, tasks, executor>>

NextCompose == ComposeFuse \/ ComposeFuseMultiple

SpecCompose == InitCompose /\ [][NextCompose]_vars

(***************************************************************************)
(* C14: the memory projected for a fused operation and the memory allowed. *)
(***************************************************************************)
WithinAllowed == \A i \in DOMAIN ops : ops[i].projected_mem <= ops[i].allowed_mem

\* the operations built first have one allowed_mem
OneAllowedMem == \A i, j \in DOMAIN last.base : last.base[i].allowed_mem = last.base[j].allowed_mem

\* C14: every operation obtained from operations general_blockwise built by
\* fusions that the decisions admit has projected_mem <= allowed_mem,
\* whatever the allowed_mem values the operations were built with.
C14_FusedWithinAllowed == last.call = "compose" => WithinAllowed

\* C14 amended: every operation so obtained has projected_mem <= allowed_mem
\* when the operations were all built with the same allowed_mem; with
\* different allowed_mem values this holds of the operations obtained by
\* fuse_multiple alone, and not of those obtained by the pairwise fuse.
C14_FusedWithinOneAllowed ==
    (last.call = "compose" /\ (OneAllowedMem \/ last.fuse = 0)) => WithinAllowed

\* operations built with one allowed_mem have been fused by fuse_multiple and
\* the result by fuse, the projected memory rising to that of a predecessor
C14_Witness ==
    /\ last.call = "compose"
    /\ OneAllowedMem
    /\ last.fuse = 1
    /\ last.fuse_multiple = 1
    /\ Len(ops) = Len(last.base) + 2
    /\ ops[Len(ops)].projected_mem = 16
    /\ ops[Len(ops)].allowed_mem = 20
    /\ ops[Len(ops)].config.function.code = "fuse.fused_func"
    /\ ops[Len(ops)].config.function.pipeline1.function.code = "fuse_multiple.fused_func_single"

=============================================================================
